---- MODULE Spec2Model ----
(***************************************************************************)
(* Measurement session of the Leaflet viewer (src/src/App.jsx, first       *)
(* AppContent / MeasureLayer pair).                                        *)
(*                                                                         *)
(* Coordinates are fixed-point integers: a latitude is counted in units of *)
(* 1e-4 degree, a longitude in whole degrees.  A stored point is the pair  *)
(* <<lat, lng>> exactly as the click handler stores it; the positions      *)
(* handed to turf are <<lng, lat>>.                                        *)
(*                                                                         *)
(* React state is modelled by its logical value (the value the next render *)
(* will see: functional updates are chained onto the latest value), and    *)
(* the last committed render of AppContent / MeasureLayer by the record    *)
(* "layer" (the props the handlers closed over and the elements returned). *)
(* "turf" is the behaviour of the geodesy provider (which of its calls     *)
(* raises), "lastEvent" the handler that ran last, and "fmt" one run of    *)
(* the area formatting on its own (specification SpecFormat).              *)
(* "loading" and "view" are the remaining state of AppContent (the overlay, *)
(* the displayed map centre and zoom, the "You are here" marker); "draw"   *)
(* and "measurement" are the feature store and the floating result of the  *)
(* Mapbox draw-based viewer (second App of src/src/App.jsx).               *)
(* Handlers of React onClick events re-render before they return; a        *)
(* Leaflet map click only schedules the re-render, which is the Render     *)
(* step, so that several clicks handled before one re-render are covered.  *)
(*                                                                         *)
(* Spec is the measurement session with the map type button; SpecControls  *)
(* adds the location and map-move events over fewer click positions;       *)
(* SpecDraw is the draw-based viewer; SpecFormat the area formatting.      *)
(***************************************************************************)
EXTENDS Integers, Sequences, FiniteSets, TLC

VARIABLES isMeasuring, measurePoints, isSatellite, turf, layer, lastEvent, fmt,
          loading, view, draw, measurement

vars == <<isMeasuring, measurePoints, isSatellite, turf, layer, lastEvent, fmt,
          loading, view, draw, measurement>>

(***************************************************************************)
(* Bounds and input sets                                                   *)
(***************************************************************************)
\* most clicks accepted in one session
MaxPoints == 4

\* e.latlng of the clicks that are delivered: the corners of a rectangle and
\* one position beyond the antimeridian (Leaflet does not wrap the longitude
\* of a click)
ClickPositions == {<<0, 0>>, <<0, 1>>, <<1, 1>>, <<1, 0>>, <<1, 181>>}

\* the operation of the geodesy provider that raises, if any
TurfFaults == {"none", "polygon", "area", "center", "point", "distance"}

\* fixed-point scales
LatUnitsPerDegree == 10000
AreaScale == 2
KmScale == 100000

(***************************************************************************)
(* GeoPoint validity (spec.md, data model): not enforced anywhere in the   *)
(* source, used only to state the claims about it.                         *)
(***************************************************************************)
ValidCoordinate(p) ==
    /\ p[1] >= -90 * LatUnitsPerDegree /\ p[1] <= 90 * LatUnitsPerDegree
    /\ p[2] >= -180 /\ p[2] <= 180

(***************************************************************************)
(* Number formatting of the host                                           *)
(***************************************************************************)
Abs(n) == IF n < 0 THEN -n ELSE n

Pad2(n) == IF n < 10 THEN "0" \o ToString(n) ELSE ToString(n)

Pad3(n) == IF n < 10 THEN "00" \o ToString(n)
           ELSE IF n < 100 THEN "0" \o ToString(n) ELSE ToString(n)

\* Math.round of a non-negative value given in 1/AreaScale units
MathRound(a) == (2 * a + AreaScale) \div (2 * AreaScale)

\* Number.prototype.toLocaleString of a non-negative integer (en-US grouping)
RECURSIVE ToLocaleString(_)
ToLocaleString(n) ==
    IF n < 1000 THEN ToString(n)
    ELSE ToLocaleString(n \div 1000) \o "," \o Pad3(n % 1000)

\* (num / den).toFixed(2) for a non-negative quotient; den is a multiple of 200
ToFixed2(num, den) ==
    LET q == den \div 100
        h == (num + (q \div 2)) \div q
    IN  ToString(h \div 100) \o "." \o Pad2(h % 100)

(***************************************************************************)
(* Geodesy provider (turf).  Positions are <<lng, lat>>.                   *)
(***************************************************************************)
\* turf.polygon rejects a ring of fewer than 4 positions or one whose first
\* and last positions differ
TurfPolygonThrows(ring) ==
    \/ Len(ring) < 4
    \/ ring[1] # ring[Len(ring)]

\* turf.area of a single closed ring, in 1/AreaScale square metres:
\* |sum (upperX - lowerX) * sin(middleY)| * R^2 / 2 over the ring's vertices
AreaPerUnit == 1236435

\* the ring summed without wrapping round from its last vertex to its first
RingTotal_NoWrap(ring) ==
    LET n == Len(ring) - 1
        Term(i) == (ring[i + 2][1] - ring[i][1]) * ring[i + 1][2]
        S[i \in 0..(n - 1)] == IF i = 0 THEN 0 ELSE S[i - 1] + Term(i)
    IN  S[n - 1]

RingTotal(ring) ==
    LET n == Len(ring) - 1
        V(i) == ring[((i - 1) % n) + 1]
        Term(i) == (V(i + 2)[1] - V(i)[1]) * V(i + 1)[2]
        S[i \in 0..n] == IF i = 0 THEN 0 ELSE S[i - 1] + Term(i)
    IN  S[n]

TurfArea(ring) == Abs(RingTotal(ring)) * AreaPerUnit

\* turf.center: the centre of the bounding box, in half coordinate units
SetMin(S) == CHOOSE x \in S : \A y \in S : x <= y
SetMax(S) == CHOOSE x \in S : \A y \in S : x >= y

\* the mean of the vertices (turf.centroid) taken for the centre
TurfCenter_MeanOfVertices(ring) ==
    LET n == Len(ring) - 1
        SX[i \in 0..n] == IF i = 0 THEN 0 ELSE SX[i - 1] + ring[i][1]
        SY[i \in 0..n] == IF i = 0 THEN 0 ELSE SY[i - 1] + ring[i][2]
    IN  <<(2 * SX[n]) \div n, (2 * SY[n]) \div n>>

TurfCenter(ring) ==
    LET X == {ring[i][1] : i \in 1..Len(ring)}
        Y == {ring[i][2] : i \in 1..Len(ring)}
    IN  <<SetMin(X) + SetMax(X), SetMin(Y) + SetMax(Y)>>

\* turf.distance (haversine, kilometres) in 1/KmScale km, tabulated for the
\* coordinate differences the click positions produce
TurfDistance(from, to) ==
    LET dLng == Abs(to[1] - from[1])
        dLat == Abs(to[2] - from[2])
    IN  CASE dLat = 0 /\ dLng = 0   -> 0
          [] dLat = 0 /\ dLng = 1   -> 11119508
          [] dLat = 0 /\ dLng = 180 -> 2001511444
          [] dLat = 0 /\ dLng = 181 -> 1990391936
          [] dLat = 1 /\ dLng = 0   -> 1112
          [] dLat = 1 /\ dLng = 1   -> 11119508
          [] dLat = 1 /\ dLng = 180 -> 2001510332
          [] dLat = 1 /\ dLng = 181 -> 1990391936

(***************************************************************************)
(* MeasureLayer: what one render of the component returns                  *)
(***************************************************************************)
NoText == ""
NoCenter == <<>>

\* [lat, lng] -> [lng, lat]
LngLat(p) == <<p[2], p[1]>>

\* a stored point as a label position (half coordinate units)
Position(p) == <<2 * p[1], 2 * p[2]>>

\* the ring left open (the closing copy of the first point forgotten)
closedPoints_Open(points) ==
    [i \in 1..Len(points) |-> LngLat(points[i])]

closedPoints(points) ==
    [i \in 1..(Len(points) + 1) |->
        LngLat(IF i <= Len(points) THEN points[i] ELSE points[1])]

AreaThreshold == 1000000

\* the superscript two of the units is written ^2

FormatArea(area) ==
    IF area > AreaThreshold * AreaScale
    THEN ToFixed2(area, AreaThreshold * AreaScale) \o " km^2"
    ELSE ToLocaleString(MathRound(area)) \o " m^2"

FormatDistance(distance) == ToFixed2(distance, KmScale) \o " km"

\* a lone point measured as a segment of length zero
Measure_LabelsSinglePoint(points, fault) ==
    IF Len(points) >= 3 THEN
        LET ring == closedPoints(points)
        IN  IF fault = "polygon" \/ TurfPolygonThrows(ring) THEN <<NoText, NoCenter>>
            ELSE IF fault = "area" THEN <<NoText, NoCenter>>
            ELSE IF fault = "center" THEN <<FormatArea(TurfArea(ring)), NoCenter>>
            ELSE LET c == TurfCenter(ring)
                 IN  <<FormatArea(TurfArea(ring)), <<c[2], c[1]>> >>
    ELSE IF Len(points) \in {1, 2} THEN
        IF fault \in {"point", "distance"} THEN <<NoText, NoCenter>>
        ELSE <<FormatDistance(TurfDistance(LngLat(points[1]), LngLat(points[Len(points)]))),
               Position(points[Len(points)])>>
    ELSE <<NoText, NoCenter>>

\* the distance label anchored at the first point instead of the second
Measure_AnchorFirst(points, fault) ==
    IF Len(points) >= 3 THEN
        LET ring == closedPoints(points)
        IN  IF fault = "polygon" \/ TurfPolygonThrows(ring) THEN <<NoText, NoCenter>>
            ELSE IF fault = "area" THEN <<NoText, NoCenter>>
            ELSE IF fault = "center" THEN <<FormatArea(TurfArea(ring)), NoCenter>>
            ELSE LET c == TurfCenter(ring)
                 IN  <<FormatArea(TurfArea(ring)), <<c[2], c[1]>> >>
    ELSE IF Len(points) = 2 THEN
        IF fault \in {"point", "distance"} THEN <<NoText, NoCenter>>
        ELSE <<FormatDistance(TurfDistance(LngLat(points[1]), LngLat(points[2]))),
               Position(points[1])>>
    ELSE <<NoText, NoCenter>>

\* the try block: <<areaText, center>> as they stand when the block is left
Measure(points, fault) ==
    IF Len(points) >= 3 THEN
        LET ring == closedPoints(points)
        IN  IF fault = "polygon" \/ TurfPolygonThrows(ring) THEN <<NoText, NoCenter>>
            ELSE IF fault = "area" THEN <<NoText, NoCenter>>
            ELSE IF fault = "center" THEN <<FormatArea(TurfArea(ring)), NoCenter>>
            ELSE LET c == TurfCenter(ring)
                 IN  <<FormatArea(TurfArea(ring)), <<c[2], c[1]>> >>
    ELSE IF Len(points) = 2 THEN
        IF fault \in {"point", "distance"} THEN <<NoText, NoCenter>>
        ELSE <<FormatDistance(TurfDistance(LngLat(points[1]), LngLat(points[2]))),
               Position(points[2])>>
    ELSE <<NoText, NoCenter>>

\* the label rendered as soon as there is a text, whatever the centre
MeasureLayer_LabelWithoutCenter(measuring, points, fault) ==
    LET m == Measure(points, fault)
        empty == Len(points) = 0
    IN  [isMeasuring |-> measuring,
         points      |-> points,
         markers     |-> points,
         polyline    |-> Len(points) > 1,
         polygon     |-> Len(points) >= 3,
         areaText    |-> IF empty THEN NoText ELSE m[1],
         center      |-> IF empty THEN NoCenter ELSE m[2],
         label       |-> ~empty /\ m[1] # NoText]

\* the measurement computed only while the session is measuring
MeasureLayer_OnlyWhileMeasuring(measuring, points, fault) ==
    LET m == IF measuring THEN Measure(points, fault) ELSE <<NoText, NoCenter>>
        empty == Len(points) = 0
    IN  [isMeasuring |-> measuring,
         points      |-> points,
         markers     |-> points,
         polyline    |-> Len(points) > 1,
         polygon     |-> Len(points) >= 3,
         areaText    |-> IF empty THEN NoText ELSE m[1],
         center      |-> IF empty THEN NoCenter ELSE m[2],
         label       |-> ~empty /\ m[1] # NoText /\ m[2] # NoCenter]

MeasureLayer(measuring, points, fault) ==
    LET m == Measure(points, fault)
        empty == Len(points) = 0
    IN  [isMeasuring |-> measuring,
         points      |-> points,
         markers     |-> points,
         polyline    |-> Len(points) > 1,
         polygon     |-> Len(points) >= 3,
         areaText    |-> IF empty THEN NoText ELSE m[1],
         center      |-> IF empty THEN NoCenter ELSE m[2],
         label       |-> ~empty /\ m[1] # NoText /\ m[2] # NoCenter]

\* lat, lng and zoom as the panel shows them, and whether the "You are here"
\* marker is on the map
InitialView == [lat |-> "0", lng |-> "0", zoom |-> 2, here |-> FALSE]

\* the floating measurement of the draw-based viewer when it is null
NoMeasurement == ""

\* no formatting run in progress
NoFormat == [area |-> 0, areaText |-> NoText, done |-> FALSE]

(***************************************************************************)
(* State machine                                                           *)
(***************************************************************************)
Init ==
    /\ isMeasuring = FALSE
    /\ measurePoints = <<>>
    /\ isSatellite = TRUE
    /\ turf \in TurfFaults
    /\ layer = MeasureLayer(FALSE, <<>>, turf)
    /\ lastEvent = "mount"
    /\ fmt = NoFormat
    /\ loading = TRUE
    /\ view = InitialView
    /\ draw = <<>>
    /\ measurement = NoMeasurement

\* the click handler without its isMeasuring test
MapClick_NoGuard(latlng) ==
    /\ Len(measurePoints) < MaxPoints
    /\ lastEvent' = "click"
    /\ measurePoints' = Append(measurePoints, latlng)
    /\ UNCHANGED <<isMeasuring, isSatellite, turf, layer, fmt, loading, view, draw, measurement>>

\* the click handler dropping a position that is already stored
MapClick_Dedupe(latlng) ==
    /\ Len(measurePoints) < MaxPoints
    /\ lastEvent' = "click"
    /\ IF ~layer.isMeasuring \/ \E i \in 1..Len(measurePoints) : measurePoints[i] = latlng
       THEN UNCHANGED <<measurePoints>>
       ELSE measurePoints' = Append(measurePoints, latlng)
    /\ UNCHANGED <<isMeasuring, isSatellite, turf, layer, fmt, loading, view, draw, measurement>>

\* the click handler appending to the points prop of the last render
\* (setPoints([...points, p])) instead of to the latest sequence
MapClick_FromProp(latlng) ==
    /\ Len(measurePoints) < MaxPoints
    /\ lastEvent' = "click"
    /\ IF ~layer.isMeasuring
       THEN UNCHANGED <<measurePoints>>
       ELSE measurePoints' = Append(layer.points, latlng)
    /\ UNCHANGED <<isMeasuring, isSatellite, turf, layer, fmt, loading, view, draw, measurement>>

\* Leaflet "click" on the map: the handler registered by the last render
MapClick(latlng) ==
    /\ Len(measurePoints) < MaxPoints
    /\ lastEvent' = "click"
    /\ IF ~layer.isMeasuring
       THEN UNCHANGED <<measurePoints>>
       ELSE measurePoints' = Append(measurePoints, latlng)
    /\ UNCHANGED <<isMeasuring, isSatellite, turf, layer, fmt, loading, view, draw, measurement>>

\* a render that closes the ring in place (points.push(points[0]))
Render_StoresClosedRing ==
    /\ layer # MeasureLayer(isMeasuring, measurePoints, turf)
    /\ measurePoints' = IF Len(measurePoints) >= 3
                        THEN Append(measurePoints, measurePoints[1])
                        ELSE measurePoints
    /\ layer' = MeasureLayer(isMeasuring, measurePoints, turf)
    /\ lastEvent' = "render"
    /\ UNCHANGED <<isMeasuring, isSatellite, turf, fmt, loading, view, draw, measurement>>

\* the re-render React scheduled for the updates of map events
Render ==
    /\ lastEvent' = "render"
    /\ UNCHANGED <<isMeasuring, measurePoints, isSatellite, turf, fmt, loading, view, draw, measurement>>
    /\ layer # MeasureLayer(isMeasuring, measurePoints, turf)
    /\ layer' = MeasureLayer(isMeasuring, measurePoints, turf)

\* the toggle without its "clear on start"
ToggleMeasure_NoClearOnStart ==
    /\ isMeasuring' = ~layer.isMeasuring
    /\ layer' = MeasureLayer(isMeasuring', measurePoints, turf)
    /\ lastEvent' = IF isMeasuring' THEN "start" ELSE "stop"
    /\ UNCHANGED <<measurePoints, isSatellite, turf, fmt, loading, view, draw, measurement>>

\* the Measure / Stop button
ToggleMeasure ==
    LET newState == ~layer.isMeasuring
    IN  /\ isMeasuring' = newState
        /\ measurePoints' = IF newState THEN <<>> ELSE measurePoints
        /\ layer' = MeasureLayer(isMeasuring', measurePoints', turf)
        /\ lastEvent' = IF newState THEN "start" ELSE "stop"
        /\ UNCHANGED <<isSatellite, turf, fmt, loading, view, draw, measurement>>

\* clearMeasurements without its setIsMeasuring(false)
clearMeasurements_KeepsMeasuring ==
    /\ Len(layer.points) > 0
    /\ measurePoints' = <<>>
    /\ layer' = MeasureLayer(isMeasuring, measurePoints', turf)
    /\ lastEvent' = "clear"
    /\ UNCHANGED <<isMeasuring, isSatellite, turf, fmt, loading, view, draw, measurement>>

\* the Clear Measurements button, rendered while points are shown
clearMeasurements ==
    /\ Len(layer.points) > 0
    /\ measurePoints' = <<>>
    /\ isMeasuring' = FALSE
    /\ layer' = MeasureLayer(isMeasuring', measurePoints', turf)
    /\ lastEvent' = "clear"
    /\ UNCHANGED <<isSatellite, turf, fmt, loading, view, draw, measurement>>

\* a map type button that also resets the measurement
ToggleMapType_ClearsPoints ==
    /\ isSatellite' = ~isSatellite
    /\ measurePoints' = <<>>
    /\ layer' = MeasureLayer(isMeasuring, measurePoints', turf)
    /\ lastEvent' = "maptype"
    /\ UNCHANGED <<isMeasuring, turf, fmt, loading, view, draw, measurement>>

\* the map type button
ToggleMapType ==
    /\ isSatellite' = ~isSatellite
    /\ layer' = MeasureLayer(isMeasuring, measurePoints, turf)
    /\ lastEvent' = "maptype"
    /\ UNCHANGED <<isMeasuring, measurePoints, turf, fmt, loading, view, draw, measurement>>

Next ==
    \/ \E latlng \in ClickPositions : MapClick(latlng)
    \/ Render
    \/ ToggleMeasure
    \/ clearMeasurements
    \/ ToggleMapType

Spec == Init /\ [][Next]_vars

(***************************************************************************)
(* The area formatting on its own: an area (in 1/AreaScale square metres)  *)
(* is drawn from FormatAreas and formatted as lines 91-96 format it.       *)
(***************************************************************************)
FormatSpan == 60

FormatAreas ==
    {0, 1, 1999, 1236435, 2469134, 2472870, 24691357}
        \cup ((AreaThreshold * AreaScale - FormatSpan)..(AreaThreshold * AreaScale + FormatSpan))

InitFormat ==
    /\ isMeasuring = FALSE
    /\ measurePoints = <<>>
    /\ isSatellite = TRUE
    /\ turf = "none"
    /\ layer = MeasureLayer(FALSE, <<>>, turf)
    /\ lastEvent = "mount"
    /\ fmt \in [area : FormatAreas, areaText : {NoText}, done : {FALSE}]
    /\ loading = TRUE
    /\ view = InitialView
    /\ draw = <<>>
    /\ measurement = NoMeasurement

FormatStep ==
    /\ ~fmt.done
    /\ fmt' = [fmt EXCEPT !.areaText = FormatArea(fmt.area), !.done = TRUE]
    /\ UNCHANGED <<isMeasuring, measurePoints, isSatellite, turf, layer, lastEvent,
                   loading, view, draw, measurement>>

NextFormat == FormatStep

SpecFormat == InitFormat /\ [][NextFormat]_vars

(***************************************************************************)
(* The Mapbox draw-based viewer: the feature store of the draw control and *)
(* the floating measurement.  A feature is its geometry type and the       *)
(* positions <<lng, lat>> of the geometry (the single position of a Point, *)
(* the path of a LineString, the closed outer ring of a Polygon).          *)
(***************************************************************************)
\* most features held by the draw store
MaxFeatures == 3

DrawnFeatures ==
    {[type |-> "Polygon",    positions |-> << <<0, 0>>, <<1, 0>>, <<1, 1>>, <<0, 0>> >>],
     [type |-> "Polygon",    positions |-> << <<0, 0>>, <<1, 0>>, <<1, 1>>, <<0, 1>>, <<0, 0>> >>],
     [type |-> "LineString", positions |-> << <<0, 0>>, <<1, 0>> >>],
     [type |-> "LineString", positions |-> << <<0, 0>>, <<1, 0>>, <<1, 1>> >>],
     [type |-> "Point",      positions |-> << <<0, 0>> >>],
     [type |-> "Point",      positions |-> << <<181, 1>> >>]}

Pad5(n) == IF n < 10 THEN "0000" \o ToString(n)
           ELSE IF n < 100 THEN "000" \o ToString(n)
           ELSE IF n < 1000 THEN "00" \o ToString(n)
           ELSE IF n < 10000 THEN "0" \o ToString(n) ELSE ToString(n)

\* (num / den).toFixed(5) for a non-negative quotient; den divides 100000
ToFixed5(num, den) ==
    LET h == num * (100000 \div den)
    IN  ToString(h \div 100000) \o "." \o Pad5(h % 100000)

\* turf.length of a path, in 1/KmScale km
TurfLength(path) ==
    LET S[i \in 1..Len(path)] ==
            IF i = 1 THEN 0 ELSE S[i - 1] + TurfDistance(path[i - 1], path[i])
    IN  S[Len(path)]

\* the measurement updateMeasurement leaves, given the store and the
\* measurement before it
updateMeasurement(features, before) ==
    IF Len(features) > 0 THEN
        LET feature == features[1]
        IN  IF feature.type = "Polygon"
            THEN "Area: " \o ToLocaleString(MathRound(TurfArea(feature.positions))) \o " m^2"
            ELSE IF feature.type = "LineString"
            THEN "Distance: " \o ToFixed2(TurfLength(feature.positions), KmScale) \o " km"
            ELSE IF feature.type = "Point"
            THEN "Location: " \o ToFixed5(feature.positions[1][2], LatUnitsPerDegree)
                     \o ", " \o ToFixed5(feature.positions[1][1], 1)
            ELSE before
    ELSE NoMeasurement

InitDraw ==
    /\ isMeasuring = FALSE
    /\ measurePoints = <<>>
    /\ isSatellite = TRUE
    /\ turf = "none"
    /\ layer = MeasureLayer(FALSE, <<>>, turf)
    /\ lastEvent = "mount"
    /\ fmt = NoFormat
    /\ loading = TRUE
    /\ view = InitialView
    /\ draw = <<>>
    /\ measurement = NoMeasurement

leafletVars == <<isMeasuring, measurePoints, isSatellite, turf, layer, fmt, loading, view>>

\* draw.create: the user finished drawing a feature
DrawCreate(feature) ==
    /\ Len(draw) < MaxFeatures
    /\ draw' = Append(draw, feature)
    /\ measurement' = updateMeasurement(draw', measurement)
    /\ lastEvent' = "draw.create"
    /\ UNCHANGED leafletVars

\* draw.update: the user moved or reshaped feature i
DrawUpdate(i, feature) ==
    /\ i \in 1..Len(draw)
    /\ feature.type = draw[i].type
    /\ feature # draw[i]
    /\ draw' = [draw EXCEPT ![i] = feature]
    /\ measurement' = updateMeasurement(draw', measurement)
    /\ lastEvent' = "draw.update"
    /\ UNCHANGED leafletVars

\* the store without the features at the selected places
Remaining(features, selected) ==
    LET F[i \in 0..Len(features)] ==
            IF i = 0 THEN <<>>
            ELSE IF i \in selected THEN F[i - 1] ELSE Append(F[i - 1], features[i])
    IN  F[Len(features)]

\* draw.delete: the user trashed the selected features
DrawDelete(selected) ==
    /\ selected # {}
    /\ selected \subseteq 1..Len(draw)
    /\ draw' = Remaining(draw, selected)
    /\ measurement' = updateMeasurement(draw', measurement)
    /\ lastEvent' = "draw.delete"
    /\ UNCHANGED leafletVars

\* the Clear Markers button without its setMeasurement(null)
ClearMarkers_KeepsMeasurement ==
    /\ draw' = <<>>
    /\ lastEvent' = "clearmarkers"
    /\ UNCHANGED measurement
    /\ UNCHANGED leafletVars

\* the Clear Markers button
ClearMarkers ==
    /\ draw' = <<>>
    /\ measurement' = NoMeasurement
    /\ lastEvent' = "clearmarkers"
    /\ UNCHANGED leafletVars

NextDraw ==
    \/ \E feature \in DrawnFeatures : DrawCreate(feature)
    \/ \E i \in 1..MaxFeatures : \E feature \in DrawnFeatures : DrawUpdate(i, feature)
    \/ \E selected \in SUBSET (1..MaxFeatures) : DrawDelete(selected)
    \/ ClearMarkers

SpecDraw == InitDraw /\ [][NextDraw]_vars

(***************************************************************************)
(* The measurement session together with the other controls and events of  *)
(* the Leaflet viewer: Locate Me, map move, location found and location    *)
(* error.  The geodesy provider does not fail here and the clicks are      *)
(* taken over ControlClicks.                                               *)
(***************************************************************************)
CentreUnitsPerDegree == 100000

ControlClicks == {<<0, 0>>, <<1, 181>>}

\* map centres <<lat, lng>> in 1/CentreUnitsPerDegree degree, and zoom levels
MapCentres == {<<1234567, -7654321>>, <<-1, 17999999>>}

MapZooms == {2, 18}

Pad4(n) == IF n < 10 THEN "000" \o ToString(n)
           ELSE IF n < 100 THEN "00" \o ToString(n)
           ELSE IF n < 1000 THEN "0" \o ToString(n) ELSE ToString(n)

\* (n / CentreUnitsPerDegree).toFixed(4): the magnitude rounded to four
\* decimals, the sign kept
ToFixed4(n) ==
    LET r == (Abs(n) + ((CentreUnitsPerDegree \div 10000) \div 2))
                \div (CentreUnitsPerDegree \div 10000)
    IN  (IF n < 0 THEN "-" ELSE "") \o ToString(r \div 10000) \o "." \o Pad4(r % 10000)

InitControls ==
    /\ isMeasuring = FALSE
    /\ measurePoints = <<>>
    /\ isSatellite = TRUE
    /\ turf = "none"
    /\ layer = MeasureLayer(FALSE, <<>>, turf)
    /\ lastEvent = "mount"
    /\ fmt = NoFormat
    /\ loading = TRUE
    /\ view = InitialView
    /\ draw = <<>>
    /\ measurement = NoMeasurement

\* the Locate Me button, the map being mounted
handleLocateMe ==
    /\ loading' = TRUE
    /\ layer' = MeasureLayer(isMeasuring, measurePoints, turf)
    /\ lastEvent' = "locate"
    /\ UNCHANGED <<isMeasuring, measurePoints, isSatellite, turf, fmt, view, draw, measurement>>

\* Leaflet "move": the panel takes the centre and the zoom of the map
MapMove(center, zoom) ==
    /\ view' = [view EXCEPT !.lat = ToFixed4(center[1]),
                            !.lng = ToFixed4(center[2]),
                            !.zoom = zoom]
    /\ lastEvent' = "move"
    /\ UNCHANGED <<isMeasuring, measurePoints, isSatellite, turf, layer, fmt, loading, draw, measurement>>

\* Leaflet "locationfound"
LocationFound ==
    /\ loading' = FALSE
    /\ view' = [view EXCEPT !.here = TRUE]
    /\ lastEvent' = "locationfound"
    /\ UNCHANGED <<isMeasuring, measurePoints, isSatellite, turf, layer, fmt, draw, measurement>>

\* Leaflet "locationerror"
LocationError ==
    /\ loading' = FALSE
    /\ lastEvent' = "locationerror"
    /\ UNCHANGED <<isMeasuring, measurePoints, isSatellite, turf, layer, fmt, view, draw, measurement>>

NextControls ==
    \/ \E latlng \in ControlClicks : MapClick(latlng)
    \/ Render
    \/ ToggleMeasure
    \/ clearMeasurements
    \/ ToggleMapType
    \/ handleLocateMe
    \/ \E center \in MapCentres, zoom \in MapZooms : MapMove(center, zoom)
    \/ LocationFound
    \/ LocationError

SpecControls == InitControls /\ [][NextControls]_vars

(***************************************************************************)
(* Claims                                                                  *)
(***************************************************************************)
\* the ring the measurement of a polygon is taken over: the stored points in
\* order, each as <<lng, lat>>, followed by a copy of the first
RingOf(points) ==
    [i \in 1..(Len(points) + 1) |->
        IF i <= Len(points) THEN <<points[i][2], points[i][1]>>
        ELSE <<points[1][2], points[1][1]>>]

Suffix(text, n) == SubSeq(text, Len(text) - n + 1, Len(text))

\* C1 as stated: every stop (the toggle pressed while measuring) and every
\* clear leaves the point sequence empty and the session idle.
C1_StopOrClearEmpties ==
    [][((isMeasuring /\ ToggleMeasure) \/ clearMeasurements)
          => (measurePoints' = <<>> /\ ~isMeasuring')]_vars

\* C1 amended: a clear leaves the point sequence empty and the session idle;
\* a stop leaves the session idle and the point sequence as it was.
C1_ClearEmptiesStopKeeps ==
    [][/\ clearMeasurements => (measurePoints' = <<>> /\ ~isMeasuring')
       /\ (isMeasuring /\ ToggleMeasure)
             => (~isMeasuring' /\ measurePoints' = measurePoints)]_vars

C1_StoppedWithPoints ==
    lastEvent = "stop" /\ ~isMeasuring /\ Len(measurePoints) >= 2

\* C2: a map click delivered while the session is idle changes neither the
\* point sequence nor isMeasuring (nor what is displayed), at any position.
C2_IdleClickIgnored ==
    [][(~isMeasuring /\ \E latlng \in ClickPositions : MapClick(latlng))
          => UNCHANGED <<measurePoints, isMeasuring, layer>>]_vars

C2_ClickedWhileIdle ==
    lastEvent = "click" /\ ~isMeasuring /\ Len(measurePoints) > 0

\* C3: a map click delivered while collecting appends exactly the clicked
\* position at the end, keeps the earlier points in place and in order, keeps
\* the session collecting, and does so for a position already stored.
C3_CollectingClickAppends ==
    [][\A latlng \in ClickPositions :
          (isMeasuring /\ MapClick(latlng))
             => /\ Len(measurePoints') = Len(measurePoints) + 1
                /\ SubSeq(measurePoints', 1, Len(measurePoints)) = measurePoints
                /\ measurePoints'[Len(measurePoints')] = latlng
                /\ isMeasuring']_vars

C3_DuplicateAppended ==
    /\ lastEvent = "click" /\ isMeasuring /\ Len(measurePoints) >= 2
    /\ \E i \in 1..(Len(measurePoints) - 1) :
          measurePoints[i] = measurePoints[Len(measurePoints)]

\* C4 as stated: no stored point has a coordinate outside latitude [-90,90]
\* or longitude [-180,180] (an invalid click is refused at the append).
C4_NoInvalidPointStored ==
    \A i \in 1..Len(measurePoints) : ValidCoordinate(measurePoints[i])

\* C5: with 0 or 1 point rendered there is no measurement text, no anchor and
\* no label; nothing but the markers of the points (none, or one) is drawn.
C5_FewerThanTwoIsNone ==
    Len(layer.points) <= 1
       => /\ ~layer.label
          /\ layer.areaText = NoText
          /\ layer.center = NoCenter
          /\ ~layer.polyline /\ ~layer.polygon
          /\ layer.markers = layer.points

C5_OnePointRendered ==
    lastEvent = "render" /\ Len(layer.points) = 1 /\ Len(layer.markers) = 1

\* C6: with exactly 2 points rendered (and the provider's point and distance
\* calls succeeding) the label shows the distance from the first to the
\* second point to two decimals followed by " km", anchored at the second.
C6_TwoPointsIsDistance ==
    (Len(layer.points) = 2 /\ turf \notin {"point", "distance"})
       => /\ layer.label
          /\ layer.areaText =
                ToFixed2(TurfDistance(<<layer.points[1][2], layer.points[1][1]>>,
                                      <<layer.points[2][2], layer.points[2][1]>>),
                         KmScale) \o " km"
          /\ Suffix(layer.areaText, 3) = " km"
          /\ layer.center = <<2 * layer.points[2][1], 2 * layer.points[2][2]>>

C6_DistanceShown ==
    /\ Len(layer.points) = 2 /\ layer.label
    /\ layer.points[1] # layer.points[2]
    /\ turf = "none"

\* C7: with 3 or more points rendered and the provider succeeding, the label
\* shows the area of the ring "stored points in order, then the first point
\* again": there is a label, and its text is an area (m^2 or km^2), never a
\* distance.
C7_ThreeOrMoreIsArea ==
    (Len(layer.points) >= 3 /\ turf = "none")
       => /\ layer.label
          /\ layer.areaText = FormatArea(TurfArea(RingOf(layer.points)))
          /\ Suffix(layer.areaText, 4) \in {" m^2", "km^2"}
          /\ layer.center # NoCenter

C7_AreaShown ==
    /\ Len(layer.points) >= 4 /\ turf = "none" /\ layer.label
    /\ Suffix(layer.areaText, 5) = " km^2"

\* C8 as stated: an area below 1,000,000 m^2 is shown as rounded square metres
\* with " m^2", an area of 1,000,000 m^2 or more as square kilometres to two
\* decimals with " km^2".
C8_UnitSwitchesAtMillion ==
    fmt.done
       => fmt.areaText =
             IF fmt.area < AreaThreshold * AreaScale
             THEN ToLocaleString(MathRound(fmt.area)) \o " m^2"
             ELSE ToFixed2(fmt.area, AreaThreshold * AreaScale) \o " km^2"

\* C9: when a call of the geodesy provider raises, the render still completes
\* (the markers of all points are drawn), no label is shown, and the render
\* leaves the stored sequence and isMeasuring as they were.
C9_Faulted ==
    \/ Len(layer.points) >= 3 /\ turf \in {"polygon", "area", "center"}
    \/ Len(layer.points) = 2 /\ turf \in {"point", "distance"}

C9_FaultIsContained ==
    /\ [](C9_Faulted
            => /\ ~layer.label
               /\ layer.markers = layer.points
               /\ layer.polyline)
    /\ [][Render => UNCHANGED <<measurePoints, isMeasuring>>]_vars

C9_FaultRendered ==
    /\ lastEvent = "render" /\ C9_Faulted
    /\ turf = "center" /\ layer.areaText # NoText /\ ~layer.label

\* C10: what is displayed is the measurement of the point sequence of the
\* last render and of nothing else; that sequence is the stored one except
\* while the re-render of a map click is still due; the label is shown
\* exactly when there is a text and an anchor.
C10_DisplayIsComputeOfPoints ==
    /\ <<layer.areaText, layer.center>> = Measure(layer.points, turf)
    /\ layer.label = (layer.areaText # NoText /\ layer.center # NoCenter)
    /\ layer.markers = layer.points
    /\ lastEvent # "click" => layer.points = measurePoints

C10_RecomputedWhileIdle ==
    /\ ~isMeasuring /\ ~isSatellite /\ layer.label
    /\ Len(layer.points) >= 3 /\ layer.points = measurePoints

\* the planar centroid of the closed ring r is <<CentroidNum(r, 1), CentroidNum(r, 2)>>
\* divided by 3 * RingCross(r)
Cross(r, i) == r[i][1] * r[i + 1][2] - r[i + 1][1] * r[i][2]

RingCross(r) ==
    LET S[i \in 0..(Len(r) - 1)] == IF i = 0 THEN 0 ELSE S[i - 1] + Cross(r, i)
    IN  S[Len(r) - 1]

CentroidNum(r, k) ==
    LET S[i \in 0..(Len(r) - 1)] ==
            IF i = 0 THEN 0 ELSE S[i - 1] + (r[i][k] + r[i + 1][k]) * Cross(r, i)
    IN  S[Len(r) - 1]

\* C11 as stated: with 3 or more points (a ring of non-zero area, the provider
\* succeeding) the label anchor is the geometric centroid of the ring.
C11_AnchorIsCentroid ==
    LET r == RingOf(layer.points)
    IN  (Len(layer.points) >= 3 /\ turf = "none" /\ RingCross(r) # 0)
           => /\ 3 * RingCross(r) * layer.center[2] = 2 * CentroidNum(r, 1)
              /\ 3 * RingCross(r) * layer.center[1] = 2 * CentroidNum(r, 2)

\* C11 amended: with 3 or more points (the provider succeeding) the label
\* anchor is the centre of the bounding box of the stored points: midway
\* between the least and the greatest latitude and between the least and the
\* greatest longitude (anchors are kept in half coordinate units).
C11_AnchorIsBoxCentre ==
    (Len(layer.points) >= 3 /\ turf = "none")
       => LET Lat == {layer.points[i][1] : i \in 1..Len(layer.points)}
              Lng == {layer.points[i][2] : i \in 1..Len(layer.points)}
          IN  /\ layer.label
              /\ \E lo \in Lat : \E hi \in Lat :
                    /\ \A y \in Lat : lo <= y /\ y <= hi
                    /\ layer.center[1] = lo + hi
              /\ \E lo \in Lng : \E hi \in Lng :
                    /\ \A x \in Lng : lo <= x /\ x <= hi
                    /\ layer.center[2] = lo + hi

C11_SquareAnchored ==
    /\ layer.points = << <<0, 0>>, <<0, 1>>, <<1, 1>>, <<1, 0>> >>
    /\ turf = "none" /\ layer.label
    /\ layer.center = <<1, 1>>

\* the text the draw-based viewer derives from a feature
C12_Derived(feature) ==
    CASE feature.type = "Polygon" ->
            "Area: " \o ToLocaleString(MathRound(TurfArea(feature.positions))) \o " m^2"
      [] feature.type = "LineString" ->
            "Distance: " \o ToFixed2(TurfLength(feature.positions), KmScale) \o " km"
      [] feature.type = "Point" ->
            "Location: " \o ToFixed5(feature.positions[1][2], LatUnitsPerDegree)
                \o ", " \o ToFixed5(feature.positions[1][1], 1)

\* C12: after every draw.create, draw.update, draw.delete and Clear Markers,
\* the floating measurement is the text derived from the first feature of the
\* draw store, it is null exactly when the store is empty, and Clear Markers
\* leaves the store empty and the measurement null.
C12_MeasurementFollowsFirstFeature ==
    /\ [](/\ (draw = <<>>) <=> (measurement = NoMeasurement)
          /\ draw # <<>> => measurement = C12_Derived(draw[1]))
    /\ [][ClearMarkers => (draw' = <<>> /\ measurement' = NoMeasurement)]_vars

C12_SecondFeatureNowFirst ==
    /\ lastEvent = "draw.delete" /\ Len(draw) >= 1
    /\ draw[1].type = "LineString"
    /\ measurement = "Distance: 111.20 km"

\* the sequence started k places later
Rotate(points, k) ==
    [i \in 1..Len(points) |-> points[((i - 1 + k) % Len(points)) + 1]]

\* C13: with 3 or more points (the provider succeeding) the area is not
\* negative, and every cyclic rotation of the sequence has the same area and
\* so the same displayed text; this holds of every ring, simple ones included.
C13_AreaRotationInvariant ==
    (Len(layer.points) >= 3 /\ turf = "none")
       => \A k \in 0..(Len(layer.points) - 1) :
             LET area == TurfArea(RingOf(Rotate(layer.points, k)))
             IN  /\ area >= 0
                 /\ area = TurfArea(RingOf(layer.points))
                 /\ layer.areaText = FormatArea(area)

C13_RotatedSquareShown ==
    /\ layer.points = << <<0, 1>>, <<1, 1>>, <<1, 0>>, <<0, 0>> >>
    /\ turf = "none"
    /\ layer.areaText = "1.24 km^2"

\* C14: pressing Measure while idle empties the point sequence (and what is
\* displayed of it) and makes the session collecting, whatever was stored.
C14_StartEmpties ==
    [][(~isMeasuring /\ ToggleMeasure)
          => /\ isMeasuring'
             /\ measurePoints' = <<>>
             /\ layer'.points = <<>> /\ layer'.markers = <<>> /\ ~layer'.label]_vars

C14_Started ==
    lastEvent = "start" /\ isMeasuring /\ measurePoints = <<>> /\ layer.markers = <<>>

\* C15: the stored sequence changes only by the append of an accepted click
\* at its end and by being emptied on a start or a clear; rendering (and so
\* measuring over the closed ring) and the map type button leave it as it is.
C15_OnlyClicksAndResets ==
    [][/\ \/ measurePoints' = measurePoints
          \/ /\ isMeasuring /\ lastEvent' = "click"
             /\ \E latlng \in ClickPositions :
                   measurePoints' = Append(measurePoints, latlng)
          \/ /\ lastEvent' \in {"start", "clear"}
             /\ measurePoints' = <<>>
       /\ lastEvent' \in {"render", "maptype"} => measurePoints' = measurePoints]_vars

C15_RingMeasuredNotStored ==
    /\ lastEvent = "render" /\ Len(measurePoints) >= 3 /\ layer.label
    /\ measurePoints[Len(measurePoints)] # measurePoints[1]
    /\ layer.points = measurePoints

IsPrefix(short, long) ==
    Len(short) <= Len(long) /\ SubSeq(long, 1, Len(short)) = short

\* C16: clicks handled while a re-render is still due are each appended to
\* the latest sequence, in delivery order, leaving what is displayed alone;
\* the displayed points are always a prefix of the stored ones and the
\* re-render shows all of them.
C16_BatchedClicksAllKept ==
    /\ [](IsPrefix(layer.points, measurePoints))
    /\ [][\A latlng \in ClickPositions :
             (isMeasuring /\ layer.points # measurePoints /\ MapClick(latlng))
                => /\ measurePoints' = Append(measurePoints, latlng)
                   /\ layer' = layer]_vars
    /\ [][Render => (measurePoints' = measurePoints /\ layer'.points = measurePoints)]_vars

C16_TwoClicksBeforeRender ==
    /\ isMeasuring /\ lastEvent = "click"
    /\ Len(measurePoints) >= Len(layer.points) + 2

\* C17: the map type button, Locate Me, a map move, a location found and a
\* location error leave the stored point sequence and isMeasuring as they
\* were, in every state they happen in.
C17_ControlsKeepMeasurement ==
    [][(\/ ToggleMapType
        \/ handleLocateMe
        \/ \E center \in MapCentres, zoom \in MapZooms : MapMove(center, zoom)
        \/ LocationFound
        \/ LocationError)
          => UNCHANGED <<measurePoints, isMeasuring>>]_vars

C17_LocatedWhileCollecting ==
    /\ lastEvent = "locationfound" /\ ~loading /\ view.here
    /\ isMeasuring /\ Len(measurePoints) >= 2
    /\ ~isSatellite /\ view.lat = "12.3457" /\ view.lng = "-76.5432"

TypeOK ==
    /\ isMeasuring \in BOOLEAN
    /\ isSatellite \in BOOLEAN
    /\ turf \in TurfFaults
    /\ Len(measurePoints) <= MaxPoints
    /\ \A i \in 1..Len(measurePoints) : measurePoints[i] \in ClickPositions
    /\ layer.isMeasuring = isMeasuring
    /\ fmt.area \in FormatAreas
====
